---- MODULE Spec2Model ----
(***************************************************************************)
(* A model of github.com/wabarc/proxier's uTLS round tripper: one          *)
(* UTLSRoundTripper shared by concurrent callers, its lazily bound inner    *)
(* engine, the one-shot hand-off of the bootstrap connection, and the       *)
(* dialer chain (direct, SOCKS5, HTTP CONNECT, HTTPS CONNECT) every dial    *)
(* goes through. A second specification, SpecFn, follows one instance from  *)
(* its options through one dialUTLS call in detail (identity, server name,  *)
(* Client Hello) and applies the package's pure functions to bounded        *)
(* inputs.                                                                  *)
(***************************************************************************)
EXTENDS Integers, Sequences, FiniteSets, TLC

\* ------------------------------------------------------------------ bounds

\* Concurrent callers (goroutines) sharing the round tripper.
NCallers == 2
\* RoundTrip calls each caller makes, one after the other.
MaxCalls == 2
\* The most bytes a CONNECT reply leaves in the bufio.Reader.
MaxBuffered == 1

\* Instances constructed one after the other in one run of SpecFn.
MaxInstances == 2
\* The most options given to UTLSOptions in one call.
MaxOptions == 3
\* The most values of the Address key of an [Interface] section.
MaxAddrs == 2

Callers == 1..NCallers

\* ------------------------------------------------------------- value sets

NIL == "nil"
\* The zero value of a sync.Mutex: nobody holds it.
NONE == 0
\* The nil inner engine, the empty hand-off slot, no CONNECT reply read.
NoEngine == [kind |-> NIL, dial |-> NIL, id |-> 0]
\* A connection of the slot: id, the bootstrap it came from; proto, what it
\* negotiated; to, the address it was established to.
NoConn == [id |-> 0, proto |-> "-", to |-> ""]
NoReply == [err |-> FALSE, status |-> 0, buffered |-> 0]

\* ALPN results of a handshake: none, HTTP/1.1, HTTP/2.
Protocols == {"", "http/1.1", "h2"}
\* http2.NextProtoTLS
NextProtoTLS == "h2"

\* URL schemes of the requests the callers send.
ReqSchemes == {"http", "https", "ftp"}
\* User-Agent of a request: "" is a request without the header.
ReqAgents == {"", "curl/8"}
\* const useragent (abbreviated)
useragent == "Mozilla/5.0 Chrome/112.0.0.0"

\* The addresses of the origins: addrForDial(req.URL) of a request.
Hosts == {"a.example:443", "b.example:443"}
FirstHost == "a.example:443"

\* The requests of Spec, all to one origin, and those of SpecAddr, HTTPS
\* requests to either origin.
Requests == [scheme : ReqSchemes, ua : ReqAgents, host : {FirstHost}]
AddrRequests == [scheme : {"https"}, ua : {""}, host : Hosts]

\* The proxy argument of the Proxy option: nothing, a URL string, a *url.URL,
\* a net.Dialer (whose LocalAddr.String() is parsed as the URL), or a value of
\* a type the resolver's type switch has no case for (a url.URL passed by
\* value, say). Unparsable stands for a text url.Parse rejects, such as the
\* "127.0.0.1:0" of a TCP LocalAddr.
ProxySchemes == {"socks5", "http", "https", "ftp"}
Unparsable == "%"
ParsedShapes == {"string", "urlptr", "dialer"}
ProxySpecs ==
    {[shape |-> "nil", scheme |-> "", port |-> FALSE]}
    \cup [shape : ParsedShapes \cup {"other"}, scheme : ProxySchemes, port : BOOLEAN]
    \cup [shape : {"string", "dialer"}, scheme : {Unparsable}, port : {FALSE}]

\* Status codes a proxy answers a CONNECT with.
ConnectStatuses == {200, 407}
\* What http.ReadResponse and the reader leave behind: a read error or a
\* status, and the bytes still buffered.
ConnectReplies ==
    [err : {FALSE}, status : ConnectStatuses, buffered : 0..MaxBuffered]
    \cup [err : {TRUE}, status : {0}, buffered : 0..MaxBuffered]

\* ---------------------------------------------------------- pure functions

addrForDial_SocksDefault(scheme, hasPort) ==
    IF hasPort THEN [ok |-> TRUE, port |-> "explicit"]
    ELSE IF scheme = "http" THEN [ok |-> TRUE, port |-> "80"]
    ELSE IF scheme = "https" THEN [ok |-> TRUE, port |-> "443"]
    ELSE IF scheme = "socks5" THEN [ok |-> TRUE, port |-> "1080"]
    ELSE [ok |-> FALSE, port |-> ""]

\* addrForDial: the port is kept when the URL has one, defaults by scheme
\* otherwise, and is an error for any other scheme.
addrForDial(scheme, hasPort) ==
    IF hasPort THEN [ok |-> TRUE, port |-> "explicit"]
    ELSE IF scheme = "http" THEN [ok |-> TRUE, port |-> "80"]
    ELSE IF scheme = "https" THEN [ok |-> TRUE, port |-> "443"]
    ELSE [ok |-> FALSE, port |-> ""]

ProxySchemeSupported_Any(scheme) == TRUE

\* makeProxyDialer's switch on proxyURL.Scheme.
ProxySchemeSupported(scheme) == scheme \in {"socks5", "http", "https"}

makeProxyDialer_ProxyAnyway(p) ==
    [ok |-> TRUE, dialer |-> "http", proxyURL |-> "http", err |-> "", named |-> ""]

makeProxyDialer_NoProxy(p) ==
    [ok |-> TRUE, dialer |-> "direct", proxyURL |-> NIL, err |-> "", named |-> ""]

\* makeProxyDialer: the dialer, the effective proxy URL (its scheme here),
\* whether construction goes on, and otherwise the error and the scheme it
\* names.
makeProxyDialer(p) ==
    IF p.shape \notin ParsedShapes
    THEN [ok |-> TRUE, dialer |-> "direct", proxyURL |-> NIL, err |-> "", named |-> ""]
    ELSE IF p.scheme = Unparsable
    THEN [ok |-> FALSE, dialer |-> "direct", proxyURL |-> NIL,
          err |-> "parse", named |-> ""]
    ELSE IF ~addrForDial(p.scheme, p.port).ok
    THEN [ok |-> FALSE, dialer |-> NIL, proxyURL |-> p.scheme,
          err |-> "unsupported URL scheme", named |-> p.scheme]
    ELSE IF ProxySchemeSupported(p.scheme)
    THEN [ok |-> TRUE, dialer |-> p.scheme, proxyURL |-> p.scheme,
          err |-> "", named |-> ""]
    ELSE [ok |-> FALSE, dialer |-> NIL, proxyURL |-> p.scheme,
          err |-> "cannot use proxy scheme", named |-> p.scheme]

Route_AllTLS(scheme) ==
    IF scheme \in {"http", "https"} THEN "utls" ELSE "unsupported"

Route_ElseTLS(scheme) ==
    IF scheme = "http" THEN "plain" ELSE "utls"

\* RoundTrip's switch on the request's URL scheme.
Route(scheme) ==
    IF scheme = "http" THEN "plain"
    ELSE IF scheme = "https" THEN "utls"
    ELSE "unsupported"

NeedsBootstrap_Always(r) == TRUE

\* httpsRoundTrip: the inner engine is built only while the field is nil.
NeedsBootstrap(r) == r = NoEngine

LockFree_NoExclusion(holder) == TRUE

\* sync.Mutex: Lock returns only when nobody holds the mutex.
LockFree(holder) == holder = NONE

EngineKind_AlwaysHTTP1(protocol) == "http.Transport"

\* makeRoundTripper's switch on the negotiated protocol.
EngineKind(protocol) ==
    IF protocol = NextProtoTLS THEN "http2.Transport" ELSE "http.Transport"

\* makeRoundTripper: either engine is given the same dialTLS callback. An
\* engine is told from another by id, the number of the bootstrap that built it.
NewEngine(protocol, id) ==
    [kind |-> EngineKind(protocol), dial |-> "dialTLS", id |-> id]

FailedEngine_Pinned(err) == [kind |-> "failed", dial |-> NIL, id |-> 0]

\* makeRoundTripper returns nil with the error of its dial, and httpsRoundTrip
\* assigns that nil to u.rt.
FailedEngine(err) == NoEngine

\* dialTLS: the first dial reuses bootstrapConn.
ReuseBootstrap(slot) == slot # NoConn

SlotAfterHandoff_Kept(slot) == slot

\* dialTLS: bootstrapConn = nil once it has been taken.
SlotAfterHandoff(slot) == NoConn

ProtocolMatches_Any(negotiated, recorded) == TRUE

\* dialTLS: a later dial must negotiate the protocol recorded at bootstrap.
ProtocolMatches(negotiated, recorded) == negotiated = recorded

\* httpsRoundTrip: the default User-Agent is set when the request has none.
ForwardedAgent(ua) == IF ua = "" THEN useragent ELSE ua

MustPanic_Never(buffered) == FALSE

\* httpProxy.Dial: any byte left in the reader is fatal.
MustPanic(buffered) == buffered # 0

\* httpProxy.Dial: only status 200 establishes the tunnel.
ConnectStatusOK(status) == status = 200

CloseConn_Forgotten(conn) == conn

\* net.Conn.Close on the connection to the proxy.
CloseConn(conn) == "closed"

\* ------------------------------------------------------------------ state

VARIABLES
    proxyEnv,       \* the proxy's behaviour: "live", or "dead" (accepts, then closes)
    inst,           \* the constructed UTLSRoundTripper: proxyDialer, httpRT.Proxy
    rtLock,         \* UTLSRoundTripper.rtLock: its holder, or NONE
    rt,             \* UTLSRoundTripper.rt: the bound inner engine, or NoEngine
    protocol,       \* makeRoundTripper's protocol: ALPN of the bootstrap connection
    bootstrapConn,  \* makeRoundTripper's bootstrapConn: the hand-off slot
    lock,           \* makeRoundTripper's lock (protects bootstrapConn): holder or NONE
    pc,             \* each caller's position
    req,            \* each caller's request in progress
    calls,          \* RoundTrip calls each caller has started
    d,              \* each caller's dial in progress
    log,            \* what each caller's call in progress has done so far
    last,           \* the record of the call that returned in the last step, if one did
    crashed,        \* a panic in a dial goroutine of the inner engine ended the process
    nBootHS,        \* bootstrap handshakes performed
    nBootOK,        \* bootstrap handshakes that succeeded
    nDialTLS,       \* dial callback invocations that took the hand-off lock
    nHandoff,       \* dial callback invocations that returned bootstrapConn
    pool,           \* connections the dial callback has returned to the engine
    engines,        \* the engines HTTPS requests were forwarded to
    originReached,  \* a connection, direct or tunnelled, reached the origin server
    made,           \* SpecFn: the instance constructed from the options
    nMade,          \* SpecFn: instances constructed so far in this run
    dl,             \* SpecFn: the dialUTLS call of that instance's bootstrap
    sent,           \* SpecFn: the Client Hellos sent so far in this run, in order
    app,            \* SpecFn: the last application of a pure function
    objs            \* SpecFn: the http.Transport objects, and the instances made of them

\* The variables of the concurrent round tripper, and those of SpecFn.
shared == <<proxyEnv, inst, rtLock, rt, protocol, bootstrapConn, lock, pc, req, calls,
            d, log, last, crashed, nBootHS, nBootOK, nDialTLS, nHandoff, pool,
            engines, originReached>>
single == <<made, nMade, dl, sent, app, objs>>
vars == <<shared, single>>

NoReq == [scheme |-> "", ua |-> "", host |-> ""]
NoDial == [ctx |-> "none", stage |-> "none", pconn |-> "none", tries |-> 0]
\* What a call has done so far. scheme, agent, host: the request; via: the transport RoundTrip chose; ua: the
\* User-Agent of the forwarded request; engine: the engine it was forwarded to;
\* lockHeld: rtLock was held by someone when a plain request was delegated;
\* boot: the bootstrap this call performed; how: where the engine's connection
\* came from; first: its dialTLS was the first to take the hand-off lock; dialRet: what the dial callback returned; neg: the protocol its
\* fresh handshake negotiated; addr: the address the dial callback was called
\* with and connTo the address the connection it returned was established to;
\* conn: the connection the dial opened, as the dial left it ("returned" once
\* it is the engine's or in the slot); tunnel: the furthest step of the CONNECT
\* exchange; reply: the CONNECT reply read; proxyRet: what httpProxy.Dial
\* returned and pconn the state of its connection then; ret, err, from, to:
\* what RoundTrip returned.
NoLog ==
    [scheme |-> "", agent |-> "", host |-> "", via |-> "none", ua |-> "",
     engine |-> NoEngine, lockHeld |-> FALSE,
     boot |-> "none", how |-> "none", first |-> FALSE, dialRet |-> "none", neg |-> "-",
     addr |-> "", connTo |-> "", conn |-> "none",
     tunnel |-> "none", reply |-> NoReply, proxyRet |-> "none", pconn |-> "none",
     ret |-> "none", err |-> "", from |-> "-", to |-> "-"]
\* The instance: st, whether it was constructed; dialer, its proxyDialer;
\* proxyURL, the Proxy of its plain transport; asked, the proxy it was asked for.
NoInst == [st |-> "none", dialer |-> NIL, proxyURL |-> NIL, asked |-> NIL]

\* SpecFn. The Config option: none given (a nil *utls.Config), or a config
\* and its ServerName.
NoConfig == [set |-> FALSE, ServerName |-> ""]
Configs == {NoConfig} \cup [set : {TRUE}, ServerName : {"", "test.example"}]
\* The identities whose Client Hello the tests spell out.
HelloIDs == {"HelloIOS_11_1", "HelloChrome_102"}
\* var defaultClientHelloID = &utls.HelloChrome_102
defaultClientHelloID == "HelloChrome_102"
\* The ClientHello option: an identity, or NIL when the option is not given.
HelloOptions == HelloIDs \cup {NIL}
\* The host of the URL of the first HTTPS request.
DialHosts == {"127.0.0.1", "localhost"}
\* The host of the proxy URL.
ProxyHost == "proxy.example"
\* The *utls.Config objects of an instance, as they are now: cfg is the one
\* given with the Config option (u.config), clone the cfgClone made for an
\* https proxy.
NoCells == [cfg |-> NoConfig, clone |-> NoConfig]
\* The instance: clientHelloID, config (the option as it was given),
\* proxyDialer and the Proxy of httpRT, the config objects, and which of them
\* the UTLSDialer of an https proxy holds.
NoMade == [st |-> "none", clientHelloID |-> NIL, config |-> NoConfig,
           proxyDialer |-> NIL, proxyURL |-> NIL, cells |-> NoCells, proxyCfg |-> NIL]
NoHello == [ciphers |-> <<>>, exts |-> <<>>]
\* The dialUTLS call: stage, the host dialed, the identity given to
\* utls.UClient, the server name of the connection, the Client Hello sent,
\* and the server name of the connection to an https proxy ("-": none made).
NoDl == [stage |-> "none", host |-> "", identity |-> NIL, sni |-> "", hello |-> NoHello,
         psni |-> "-"]
NoApp == [fn |-> "none"]
\* The http.Transport objects. Object 0 is the package's httpRoundTripper, a
\* clone of http.DefaultTransport: its Proxy is the environment's, and it has
\* no DialTLS. The others are allocated as instances and engines are made.
TransportIds == 0..(2 * MaxInstances)
Template == [Proxy |-> "ProxyFromEnvironment", DialTLS |-> NIL]
NoTransport == [Proxy |-> "-", DialTLS |-> "-"]
\* heap: the fields of each object; next: the next object to allocate; insts:
\* for each instance constructed, its httpRT object, the proxy URL resolved
\* for it, and the engine its bootstrap built (object 0: none, or not an
\* http.Transport).
NoObjs ==
    [heap |-> [t \in TransportIds |-> IF t = 0 THEN Template ELSE NoTransport],
     next |-> 1, insts |-> <<>>]

Init ==
    /\ proxyEnv \in {"live", "dead"}
    /\ inst = NoInst
    /\ rtLock = NONE
    /\ rt = NoEngine
    /\ protocol = "-"
    /\ bootstrapConn = NoConn
    /\ lock = NONE
    /\ pc = [c \in Callers |-> "idle"]
    /\ req = [c \in Callers |-> NoReq]
    /\ calls = [c \in Callers |-> 0]
    /\ d = [c \in Callers |-> NoDial]
    /\ log = [c \in Callers |-> NoLog]
    /\ last = NoLog
    /\ crashed = FALSE
    /\ nBootHS = 0
    /\ nBootOK = 0
    /\ nDialTLS = 0
    /\ nHandoff = 0
    /\ pool = 0
    /\ engines = {}
    /\ originReached = FALSE
    /\ made = NoMade
    /\ nMade = 0
    /\ dl = NoDl
    /\ sent = <<>>
    /\ app = NoApp
    /\ objs = NoObjs

\* The variables of makeRoundTripper's closure and of the binding.
binding == <<rtLock, rt, protocol, bootstrapConn, lock>>
counters == <<nBootHS, nBootOK, nDialTLS, nHandoff, pool>>

\* ------------------------------------------------------------ construction

\* NewUTLSRoundTripper(Proxy(p), ...): resolves the dialer chain, clones the
\* plain transport and sets its Proxy; touches no network.
NewUTLSRoundTripper(p) ==
    /\ inst.st = "none"
    /\ LET r == makeProxyDialer(p)
           asked == IF p.shape \in ParsedShapes THEN p.scheme ELSE p.shape
       IN
        inst' = IF r.ok
                THEN [st |-> "ok", dialer |-> r.dialer, proxyURL |-> r.proxyURL, asked |-> asked]
                ELSE [st |-> "err", dialer |-> NIL, proxyURL |-> NIL, asked |-> asked]
    /\ last' = NoLog
    /\ UNCHANGED <<single, proxyEnv, binding, pc, req, calls, d, log, crashed, counters,
                   engines, originReached>>

Running == inst.st = "ok" /\ ~crashed

\* ------------------------------------------------------------- RoundTrip

\* RoundTrip returns (or, with how = "panicked", is unwound by a panic): the
\* record lg of the call becomes the last one, the caller's locals are gone.
Return(c, lg, how) ==
    /\ pc' = [pc EXCEPT ![c] = how]
    /\ req' = [req EXCEPT ![c] = NoReq]
    /\ d' = [d EXCEPT ![c] = NoDial]
    /\ log' = [log EXCEPT ![c] = NoLog]
    /\ last' = lg

\* A caller enters RoundTrip with a request.
StartCall(c, r) ==
    /\ Running
    /\ pc[c] = "idle"
    /\ calls[c] < MaxCalls
    /\ calls' = [calls EXCEPT ![c] = @ + 1]
    /\ req' = [req EXCEPT ![c] = r]
    /\ pc' = [pc EXCEPT ![c] = "call"]
    /\ log' = [log EXCEPT ![c] = [NoLog EXCEPT !.scheme = r.scheme, !.agent = r.ua,
                                                  !.host = r.host]]
    /\ last' = NoLog
    /\ UNCHANGED <<single, proxyEnv, inst, binding, d, crashed, counters, engines,
                   originReached>>

\* case "http": u.httpRT.RoundTrip(req). The plain transport goes to the proxy
\* its Proxy field names, or straight to the origin when that is nil; a dead
\* proxy fails every exchange.
RoundTripPlain(c) ==
    /\ Running
    /\ pc[c] = "call"
    /\ Route(req[c].scheme) = "plain"
    /\ \E ok \in BOOLEAN :
        /\ (inst.proxyURL # NIL /\ proxyEnv = "dead") => ~ok
        /\ originReached' = (originReached \/ inst.proxyURL = NIL \/ ok)
        /\ Return(c, [log[c] EXCEPT !.via = "httpRT", !.ua = req[c].ua,
                                    !.lockHeld = (rtLock # NONE),
                                    !.ret = IF ok THEN "ok" ELSE "err",
                                    !.err = IF ok THEN "" ELSE "plain transport"],
                  "idle")
    /\ UNCHANGED <<single, proxyEnv, inst, binding, calls, crashed, counters, engines>>

\* default: unsupported URL scheme.
RoundTripUnsupported(c) ==
    /\ Running
    /\ pc[c] = "call"
    /\ Route(req[c].scheme) = "unsupported"
    /\ Return(c, [log[c] EXCEPT !.via = "unsupported", !.ret = "err",
                                !.err = "unsupported URL scheme",
                                !.from = req[c].scheme],
              "idle")
    /\ UNCHANGED <<single, proxyEnv, inst, binding, calls, crashed, counters, engines,
                   originReached>>

\* --------------------------------------------------------- httpsRoundTrip

\* A dialUTLS call starts: nothing is connected yet.
NewDial(ctx) == [ctx |-> ctx, stage |-> "connect", pconn |-> "none", tries |-> 0]

\* u.rtLock.Lock(), and under it the test of u.rt: the first caller goes on to
\* makeRoundTripper (addrForDial of an https URL cannot fail) and starts the
\* bootstrap dial; a caller that finds an engine goes straight to Unlock.
HTTPSLock(c) ==
    /\ Running
    /\ pc[c] = "call"
    /\ Route(req[c].scheme) = "utls"
    /\ LockFree(rtLock)
    /\ rtLock' = c
    /\ IF NeedsBootstrap(rt) /\ addrForDial("https", FALSE).ok
       THEN /\ pc' = [pc EXCEPT ![c] = "dialing"]
            /\ d' = [d EXCEPT ![c] = NewDial("boot")]
       ELSE /\ pc' = [pc EXCEPT ![c] = "unlock"]
            /\ d' = d
    /\ log' = [log EXCEPT ![c] = [@ EXCEPT !.via = "rt"]]
    /\ last' = NoLog
    /\ UNCHANGED <<single, proxyEnv, inst, rt, protocol, bootstrapConn, lock, req, calls,
                   crashed, counters, engines, originReached>>

\* u.rtLock.Unlock(), then the error of makeRoundTripper is returned, or the
\* User-Agent is set and the request is forwarded to u.rt.
HTTPSUnlock(c) ==
    /\ Running
    /\ pc[c] = "unlock"
    /\ rtLock' = NONE
    /\ IF log[c].boot = "err"
       THEN /\ Return(c, [log[c] EXCEPT !.ret = "err"], "idle")
            /\ engines' = engines
       ELSE /\ pc' = [pc EXCEPT ![c] = "fwd"]
            /\ log' = [log EXCEPT ![c] =
                         [@ EXCEPT !.ua = ForwardedAgent(req[c].ua), !.engine = rt]]
            /\ engines' = engines \cup {rt}
            /\ last' = NoLog
            /\ UNCHANGED <<req, d>>
    /\ UNCHANGED <<single, proxyEnv, inst, rt, protocol, bootstrapConn, lock, calls,
                   crashed, counters, originReached>>

\* ------------------------------------------------------- the inner engine

\* The engine serves the request on a connection it already has.
EngineReuse(c) ==
    /\ Running
    /\ pc[c] = "fwd"
    /\ pool > 0
    /\ \E ok \in BOOLEAN :
        Return(c, [log[c] EXCEPT !.how = "pooled",
                                 !.ret = IF ok THEN "ok" ELSE "err",
                                 !.err = IF ok THEN "" ELSE "transfer"],
               "idle")
    /\ UNCHANGED <<single, proxyEnv, inst, binding, calls, crashed, counters, engines,
                   originReached>>

\* The record of a call whose request is now in the dial callback: what the
\* bootstrap dial of the same call left in it is behind.
InDialTLS(lg, how, first) ==
    [lg EXCEPT !.how = how, !.first = first, !.tunnel = "none", !.reply = NoReply,
               !.proxyRet = "none", !.pconn = "none", !.addr = lg.host, !.conn = "none"]

\* The engine needs a connection and calls DialTLS. dialTLS: lock.Lock() and
\* the test of bootstrapConn.
DialTLSLock(c) ==
    /\ Running
    /\ pc[c] = "fwd"
    /\ LockFree(lock)
    /\ lock' = c
    /\ nDialTLS' = nDialTLS + 1
    /\ IF ReuseBootstrap(bootstrapConn)
       THEN /\ pc' = [pc EXCEPT ![c] = "dtake"]
            /\ d' = [d EXCEPT ![c] = NoDial]
            /\ log' = [log EXCEPT ![c] = InDialTLS(log[c], "handoff", nDialTLS = 0)]
       ELSE /\ pc' = [pc EXCEPT ![c] = "dialing"]
            /\ d' = [d EXCEPT ![c] = NewDial("dial")]
            /\ log' = [log EXCEPT ![c] = InDialTLS(log[c], "fresh", nDialTLS = 0)]
    /\ last' = NoLog
    /\ UNCHANGED <<single, proxyEnv, inst, rtLock, rt, protocol, bootstrapConn, req, calls,
                   crashed, nBootHS, nBootOK, nHandoff, pool, engines, originReached>>

\* dialTLS: uconn := bootstrapConn; bootstrapConn = nil; return uconn, with the
\* deferred lock.Unlock(). The engine then transfers the request on it.
DialTLSTake(c) ==
    /\ Running
    /\ pc[c] = "dtake"
    /\ bootstrapConn' = SlotAfterHandoff(bootstrapConn)
    /\ lock' = NONE
    /\ nHandoff' = nHandoff + 1
    /\ pool' = pool + 1
    /\ \E ok \in BOOLEAN :
        Return(c, [log[c] EXCEPT !.dialRet = "conn", !.connTo = bootstrapConn.to,
                                 !.conn = "returned",
                                 !.ret = IF ok THEN "ok" ELSE "err",
                                 !.err = IF ok THEN "" ELSE "transfer"],
               "idle")
    /\ UNCHANGED <<single, proxyEnv, inst, rtLock, rt, protocol, calls, crashed,
                   nBootHS, nBootOK, nDialTLS, engines, originReached>>

\* ---------------------------------------------------------- the dial chain

AfterConnect_Straight(dialer) == "hs"

\* Where a dial through inst.dialer goes after the first hop is connected.
AfterConnect(dialer) ==
    IF dialer = "direct" THEN "hs"
    ELSE IF dialer = "socks5" THEN "socks"
    ELSE IF dialer = "http" THEN "cwrite"
    ELSE "phs"

\* forward.Dial of the first hop has been called once more.
Tried(c) == IF d[c].stage = "connect" THEN d[c].tries + 1 ELSE d[c].tries

\* The dial goes on to its next step.
DialNext(c, stage, pconn, tunnel, reply, reached) ==
    /\ d' = [d EXCEPT ![c] = [@ EXCEPT !.stage = stage, !.pconn = pconn,
                                       !.tries = Tried(c)]]
    /\ log' = [log EXCEPT ![c] = [@ EXCEPT !.tunnel = tunnel, !.pconn = pconn,
                                           !.reply = reply,
                                           !.proxyRet = IF stage = "hs" /\ tunnel # "none"
                                                        THEN "conn" ELSE @]]
    /\ originReached' = (originReached \/ reached)
    /\ last' = NoLog
    /\ UNCHANGED <<single, proxyEnv, inst, binding, pc, req, calls, crashed, counters,
                   engines>>

\* The connection forward.Dial gave dialUTLS, when the dial ends with the
\* proxy connection in state pconn: the direct dialer's connection to the
\* origin, which nothing in dialUTLS closes, or the proxy connection.
DialedConn(c, pconn) ==
    IF inst.dialer = "direct"
    THEN IF d[c].stage = "hs" THEN "open" ELSE "none"
    ELSE pconn

DialError_Retry(c, err, pconn, tunnel, reply, proxyRet, hs) ==
    /\ d' = [d EXCEPT ![c] = NewDial(d[c].ctx)]
    /\ last' = NoLog
    /\ UNCHANGED <<single, proxyEnv, inst, binding, pc, req, calls, log, crashed, counters,
                   engines, originReached>>

\* dialUTLS returns an error. In makeRoundTripper the error is returned and
\* httpsRoundTrip assigns u.rt the nil engine that comes with it; in dialTLS
\* the error is returned to the engine, which fails the request, and the
\* deferred lock.Unlock() runs.
DialError(c, err, pconn, tunnel, reply, proxyRet, hs) ==
    LET lg == [log[c] EXCEPT !.err = err, !.tunnel = tunnel, !.pconn = pconn,
                             !.reply = reply, !.proxyRet = proxyRet,
                             !.conn = DialedConn(c, pconn)] IN
    /\ IF d[c].ctx = "boot"
       THEN /\ rt' = FailedEngine(err)
            /\ pc' = [pc EXCEPT ![c] = "unlock"]
            /\ d' = [d EXCEPT ![c] = [@ EXCEPT !.stage = "none", !.pconn = pconn,
                                               !.tries = Tried(c)]]
            /\ log' = [log EXCEPT ![c] = [lg EXCEPT !.boot = "err"]]
            /\ nBootHS' = nBootHS + hs
            /\ last' = NoLog
            /\ UNCHANGED <<lock, req>>
       ELSE /\ rt' = rt
            /\ Return(c, [lg EXCEPT !.dialRet = "err", !.ret = "err"], "idle")
            /\ nBootHS' = nBootHS
            /\ lock' = NONE
    /\ UNCHANGED <<single, proxyEnv, inst, rtLock, protocol, bootstrapConn, calls, crashed,
                   nBootOK, nDialTLS, nHandoff, pool, engines, originReached>>

\* httpProxy.Dial panics. Nothing closes the connection. During the bootstrap
\* the panic unwinds the caller's RoundTrip with rtLock still locked (it has no
\* deferred Unlock); in dialTLS the deferred lock.Unlock() runs, and the panic,
\* raised in a dial goroutine of the engine, ends the process.
DialPanic(c, reply) ==
    /\ Return(c, [log[c] EXCEPT !.boot = IF d[c].ctx = "boot" THEN "panic" ELSE @,
                                !.dialRet = IF d[c].ctx = "dial" THEN "panic" ELSE @,
                                !.tunnel = "read", !.reply = reply,
                                !.conn = DialedConn(c, d[c].pconn),
                                !.proxyRet = "panic", !.ret = "panic"],
              "panicked")
    /\ lock' = IF d[c].ctx = "dial" THEN NONE ELSE lock
    /\ crashed' = (d[c].ctx = "dial")
    /\ UNCHANGED <<single, proxyEnv, inst, rtLock, rt, protocol, bootstrapConn, calls,
                   counters, engines, originReached>>

\* forward.Dial of the first hop: the origin itself with the direct dialer,
\* the proxy otherwise. A dead proxy still accepts the connection.
DialConnect(c) ==
    /\ Running
    /\ pc[c] = "dialing"
    /\ d[c].stage = "connect"
    /\ \E ok \in BOOLEAN :
        /\ (inst.dialer # "direct" /\ proxyEnv = "dead") => ok
        /\ IF ok
           THEN DialNext(c, AfterConnect(inst.dialer),
                         IF inst.dialer = "direct" THEN "none" ELSE "open",
                         "none", NoReply, inst.dialer = "direct")
           ELSE DialError(c, "connect", "none", "none", NoReply,
                          IF inst.dialer \in {"http", "https"} THEN "err" ELSE "none", 0)

\* UTLSDialer.Dial: the handshake with an https proxy (dialUTLS towards the
\* proxy). dialUTLS returns the error of a failed handshake without closing
\* the connection.
ProxyHandshake(c) ==
    /\ Running
    /\ pc[c] = "dialing"
    /\ d[c].stage = "phs"
    /\ \E ok \in BOOLEAN :
        /\ proxyEnv = "dead" => ~ok
        /\ IF ok
           THEN DialNext(c, "cwrite", "open", "none", NoReply, FALSE)
           ELSE DialError(c, "proxy handshake", "open", "none", NoReply, "err", 0)

\* The SOCKS5 exchange of golang.org/x/net/proxy, which closes the connection
\* when the exchange fails.
SocksExchange(c) ==
    /\ Running
    /\ pc[c] = "dialing"
    /\ d[c].stage = "socks"
    /\ \E ok \in BOOLEAN :
        /\ proxyEnv = "dead" => ~ok
        /\ IF ok
           THEN DialNext(c, "hs", "open", "none", NoReply, TRUE)
           ELSE DialError(c, "socks", "closed", "none", NoReply, "none", 0)

\* httpProxy.Dial: connectReq.Write(conn). Towards a proxy that has closed
\* the connection the write fails, or succeeds into the socket buffer.
ConnectWrite(c) ==
    /\ Running
    /\ pc[c] = "dialing"
    /\ d[c].stage = "cwrite"
    /\ \E ok \in BOOLEAN :
        IF ok
        THEN DialNext(c, "cread", d[c].pconn, "write", NoReply, FALSE)
        ELSE DialError(c, "connect write", CloseConn(d[c].pconn), "write", NoReply, "err", 0)

\* httpProxy.Dial: http.ReadResponse, the test of the reader's buffer, then of
\* the error, then of the status.
ConnectRead(c, reply) ==
    /\ Running
    /\ pc[c] = "dialing"
    /\ d[c].stage = "cread"
    /\ proxyEnv = "dead" => (reply.err /\ reply.buffered = 0)
    /\ IF MustPanic(reply.buffered)
       THEN DialPanic(c, reply)
       ELSE IF reply.err
       THEN DialError(c, "connect read", CloseConn(d[c].pconn), "read", reply, "err", 0)
       ELSE IF ~ConnectStatusOK(reply.status)
       THEN DialError(c, "proxy server returned", CloseConn(d[c].pconn), "read", reply, "err", 0)
       ELSE DialNext(c, "hs", d[c].pconn, "read", reply, TRUE)

\* dialUTLS returns a connection that negotiated protocol p. In
\* makeRoundTripper it becomes bootstrapConn, p is recorded and the engine for
\* p is built, with a new hand-off lock; in dialTLS p is compared with the
\* recorded protocol and the connection or an error is returned, the deferred
\* lock.Unlock() runs, and the engine transfers the request on the connection.
DialOK(c, p, xfer) ==
    IF d[c].ctx = "boot"
    THEN /\ rt' = NewEngine(p, nBootOK + 1)
         /\ protocol' = p
         /\ bootstrapConn' = [id |-> nBootOK + 1, proto |-> p, to |-> req[c].host]
         /\ lock' = NONE
         /\ pc' = [pc EXCEPT ![c] = "unlock"]
         /\ d' = [d EXCEPT ![c] = [@ EXCEPT !.stage = "none"]]
         /\ log' = [log EXCEPT ![c] = [@ EXCEPT !.boot = "ok", !.conn = "returned"]]
         /\ nBootHS' = nBootHS + 1
         /\ nBootOK' = nBootOK + 1
         /\ last' = NoLog
         /\ UNCHANGED <<single, proxyEnv, inst, rtLock, req, calls, crashed, nDialTLS,
                        nHandoff, pool, engines, originReached>>
    ELSE /\ lock' = NONE
         /\ IF ProtocolMatches(p, protocol)
            THEN /\ pool' = pool + 1
                 /\ Return(c, [log[c] EXCEPT !.neg = p, !.dialRet = "conn",
                                             !.connTo = log[c].addr, !.conn = "returned",
                                             !.ret = IF xfer THEN "ok" ELSE "err",
                                             !.err = IF xfer THEN "" ELSE "transfer"],
                           "idle")
            ELSE /\ pool' = pool
                 /\ Return(c, [log[c] EXCEPT !.neg = p, !.dialRet = "err", !.ret = "err",
                                             !.conn = DialedConn(c, d[c].pconn),
                                             !.err = "unexpected switch from ALPN",
                                             !.from = protocol, !.to = p],
                           "idle")
         /\ UNCHANGED <<single, proxyEnv, inst, rtLock, rt, protocol, bootstrapConn, calls,
                        crashed, nBootHS, nBootOK, nDialTLS, nHandoff,
                        engines, originReached>>

\* dialUTLS: utls.UClient, SetSNI and uconn.Handshake() with the target, over
\* the direct connection or the tunnel. A failed handshake returns its error
\* and leaves the connection as it is.
Handshake(c) ==
    /\ Running
    /\ pc[c] = "dialing"
    /\ d[c].stage = "hs"
    /\ \/ \E p \in Protocols, xfer \in BOOLEAN : DialOK(c, p, xfer)
       \/ DialError(c, "handshake", d[c].pconn, log[c].tunnel, log[c].reply,
                    log[c].proxyRet, 1)

\* ------------------------------------------------------------ specification

Next ==
    \/ \E p \in ProxySpecs : NewUTLSRoundTripper(p)
    \/ \E c \in Callers :
        \/ \E r \in Requests : StartCall(c, r)
        \/ RoundTripPlain(c)
        \/ RoundTripUnsupported(c)
        \/ HTTPSLock(c)
        \/ HTTPSUnlock(c)
        \/ EngineReuse(c)
        \/ DialTLSLock(c)
        \/ DialTLSTake(c)
        \/ DialConnect(c)
        \/ ProxyHandshake(c)
        \/ SocksExchange(c)
        \/ ConnectWrite(c)
        \/ \E reply \in ConnectReplies : ConnectRead(c, reply)
        \/ Handshake(c)

Spec == Init /\ [][Next]_vars

\* The same round tripper without a proxy, its callers sending HTTPS requests
\* to either origin.
AddrProxySpecs == {[shape |-> "nil", scheme |-> "", port |-> FALSE]}

NextAddr ==
    \/ \E p \in AddrProxySpecs : NewUTLSRoundTripper(p)
    \/ \E c \in Callers :
        \/ \E r \in AddrRequests : StartCall(c, r)
        \/ HTTPSLock(c)
        \/ HTTPSUnlock(c)
        \/ EngineReuse(c)
        \/ DialTLSLock(c)
        \/ DialTLSTake(c)
        \/ DialConnect(c)
        \/ Handshake(c)

SpecAddr == Init /\ [][NextAddr]_vars

\* --------------------------------------- one instance, one dial, in detail

\* The cipher suites and the extensions, in order, of the Client Hello of an
\* identity, as the tests expect them on the wire (GREASE values left out).
CipherSuites(id) ==
    IF id = "HelloIOS_11_1"
    THEN <<49196, 49195, 49188, 49187, 49162, 49161, 52393, 49200, 49199, 49192,
           49191, 49172, 49171, 52392, 157, 156, 61, 60, 53, 47>>
    ELSE <<4865, 4866, 4867, 49195, 49199, 49196, 49200, 52393, 52392, 49171,
           49172, 156, 157, 47, 53>>

Extensions(id) ==
    IF id = "HelloIOS_11_1"
    THEN <<65281, 0, 23, 13, 5, 13172, 18, 16, 11, 10>>
    ELSE <<0, 23, 65281, 10, 11, 35, 16, 5, 13, 18, 51, 45, 43, 27, 17513, 21>>

\* Extension 0 is server_name.
IsServerName(ext) == ext = 0

\* The Client Hello of identity id for server name sni: without a server name
\* the server_name extension is left out.
ClientHelloOf(id, sni) ==
    [ciphers |-> CipherSuites(id),
     exts |-> IF sni = ""
              THEN SelectSeq(Extensions(id), LAMBDA e : ~IsServerName(e))
              ELSE Extensions(id)]

UClientIdentity_Fixed(clientHelloID) == defaultClientHelloID

\* dialUTLS: utls.UClient(conn, cfg, *clientHelloID), the identity configured.
UClientIdentity(clientHelloID) == clientHelloID

IsIP(host) == host = "127.0.0.1"

\* An IP address is no server name: SetSNI keeps none for it.
hostnameInSNI(name) == IF IsIP(name) THEN "" ELSE name

ServerNameFor_DialHost(cfg, host) == hostnameInSNI(host)

\* dialUTLS: with no config or no ServerName in it, SetSNI(the host of the
\* dial address); otherwise the ServerName of the config stands.
ServerNameFor(cfg, host) ==
    IF ~cfg.set \/ cfg.ServerName = ""
    THEN hostnameInSNI(host)
    ELSE cfg.ServerName

\* The config a dialUTLS call finds after uconn.SetSNI(host) has been called
\* on a connection made with config cfg: UClient keeps the config it is given
\* (and makes one of its own for nil), and SetSNI writes its ServerName.
AfterSetSNI(cfg, host) ==
    IF cfg.set /\ cfg.ServerName = ""
    THEN [cfg EXCEPT !.ServerName = hostnameInSNI(host)]
    ELSE cfg

ProxyConfig_Shared(cfg) == "cfg"

\* makeProxyDialer, case "https": the UTLSDialer towards the proxy is given
\* cfgClone, a copy of the config (nil for nil).
ProxyConfig(cfg) == "clone"

\* No dialUTLS call is in progress.
DialIdle == dl.stage \in {"none", "done", "err", "panic"}

\* UTLSOptions(Proxy(p), ClientHello(ch), Config(cfg)) and NewUTLSRoundTripper:
\* the options are stored as given, the dialer chain is resolved.
Construct(p, ch, cfg) ==
    /\ DialIdle
    /\ app.fn \in {"none", "NewUTLSRoundTripper"}
    /\ nMade < MaxInstances
    /\ LET r == makeProxyDialer(p) IN
        /\ made' = IF r.ok
                   THEN [st |-> "ok", clientHelloID |-> ch, config |-> cfg,
                         proxyDialer |-> r.dialer, proxyURL |-> r.proxyURL,
                         cells |-> [cfg |-> cfg, clone |-> cfg],
                         proxyCfg |-> IF r.dialer = "https" THEN ProxyConfig(cfg) ELSE NIL]
                   ELSE [NoMade EXCEPT !.st = "err"]
        /\ app' = [fn |-> "NewUTLSRoundTripper", arg |-> p, res |-> r]
    /\ nMade' = nMade + 1
    /\ dl' = NoDl
    /\ UNCHANGED <<shared, sent, objs>>

\* The first HTTPS RoundTrip: makeRoundTripper's dial, dialUTLS, calls
\* forward.Dial, which connects to the target, or to the proxy and through it.
\* Through an https proxy the connection to the proxy goes through a dialUTLS
\* of its own first.
UTLSForwardDial(host) ==
    /\ made.st = "ok"
    /\ dl.stage = "none"
    /\ \E out \in {"connected", "proxy", "err"} :
        /\ out = "proxy" <=> (out # "err" /\ made.proxyDialer = "https")
        /\ dl' = [NoDl EXCEPT !.stage = out, !.host = host]
    /\ UNCHANGED <<shared, made, nMade, sent, app, objs>>

\* UTLSDialer.Dial: dialUTLS towards the https proxy, with the config the
\* UTLSDialer holds: utls.UClient (which dereferences the identity), the
\* choice of the server name, the handshake; then the CONNECT exchange.
UTLSProxyHandshake ==
    /\ dl.stage = "proxy"
    /\ IF made.clientHelloID = NIL
       THEN /\ dl' = [dl EXCEPT !.stage = "panic"]
            /\ made' = made
       ELSE /\ \E out \in {"connected", "err"} :
                dl' = [dl EXCEPT !.stage = out,
                                 !.psni = ServerNameFor(made.cells[made.proxyCfg], ProxyHost)]
            /\ made' = [made EXCEPT !.cells[made.proxyCfg] = AfterSetSNI(@, ProxyHost)]
    /\ UNCHANGED <<shared, nMade, sent, app, objs>>

\* dialUTLS: utls.UClient(conn, cfg, *clientHelloID), which dereferences the
\* identity, and the choice of the server name.
UTLSClient ==
    /\ dl.stage = "connected"
    /\ IF made.clientHelloID = NIL
       THEN /\ dl' = [dl EXCEPT !.stage = "panic"]
            /\ made' = made
       ELSE /\ dl' = [dl EXCEPT !.stage = "ready",
                                !.identity = UClientIdentity(made.clientHelloID),
                                !.sni = ServerNameFor(made.cells.cfg, dl.host)]
            /\ made' = [made EXCEPT !.cells.cfg = AfterSetSNI(@, dl.host)]
    /\ UNCHANGED <<shared, nMade, sent, app, objs>>

\* dialUTLS: uconn.Handshake() sends the Client Hello and succeeds or fails.
UTLSHandshake ==
    /\ dl.stage = "ready"
    /\ LET h == ClientHelloOf(dl.identity, dl.sni) IN
        /\ \E out \in {"done", "err"} : dl' = [dl EXCEPT !.stage = out, !.hello = h]
        /\ sent' = Append(sent, [id |-> made.clientHelloID, sni |-> dl.sni, hello |-> h])
    /\ UNCHANGED <<shared, made, nMade, app, objs>>

\* ------------------------------------------------------ the pure functions

\* A pure function is applied, in a run that does nothing else.
Applied(fn, arg, res) ==
    /\ app' = [fn |-> fn, arg |-> arg, res |-> res]
    /\ UNCHANGED <<shared, made, nMade, dl, sent, objs>>

CallAddrForDial(scheme, hasPort) ==
    /\ nMade = 0 /\ app = NoApp
    /\ Applied("addrForDial", [scheme |-> scheme, port |-> hasPort],
               addrForDial(scheme, hasPort))

\* The zero value of the UTLS struct: no proxy, no identity, no config.
NoUTLS == [proxy |-> NIL, clientHello |-> NIL, config |-> NoConfig]

\* The options: Proxy(p), ClientHello(ch), Config(c), each naming the field
\* of the UTLS struct it sets.
Options ==
    [field : {"proxy"}, value : {"socks5://a:1080", "http://b:8080"}]
    \cup [field : {"clientHello"}, value : HelloIDs]
    \cup [field : {"config"}, value : Configs \ {NoConfig}]
OptionLists == UNION {[1..n -> Options] : n \in 0..MaxOptions}

ApplyOption_KeepFirst(u, o) ==
    IF u[o.field] = NoUTLS[o.field] THEN [u EXCEPT ![o.field] = o.value] ELSE u

\* Proxy, ClientHello, Config: the function returned sets its field.
ApplyOption(u, o) == [u EXCEPT ![o.field] = o.value]

\* UTLSOptions: var u UTLS, then every option is applied to it in the order
\* of the arguments.
RECURSIVE UTLSOptions(_)
UTLSOptions(options) ==
    IF options = <<>> THEN NoUTLS
    ELSE ApplyOption(UTLSOptions(SubSeq(options, 1, Len(options) - 1)),
                     options[Len(options)])

CallUTLSOptions(options) ==
    /\ nMade = 0 /\ app = NoApp
    /\ Applied("UTLSOptions", options, UTLSOptions(options))

\* Strings are sequences of bytes here: "u", "p", and the ":" between them.
Usernames == {<<>>, <<117>>}
Passwords == {<<>>, <<112>>}
Colon == <<58>>

\* proxyURL.User: nil, or a user name and, when the URL has one, a password.
NoUser == [set |-> FALSE, Username |-> <<>>, hasPassword |-> FALSE, Password |-> <<>>]
UserInfos ==
    {NoUser}
    \cup [set : {TRUE}, Username : Usernames, hasPassword : {FALSE}, Password : {<<>>}]
    \cup [set : {TRUE}, Username : Usernames, hasPassword : {TRUE}, Password : Passwords]

\* A nil *proxy.Auth.
NoAuth == [set |-> FALSE, User |-> <<>>, Password |-> <<>>]

authOf_NeedsPassword(userpass) ==
    IF userpass.set /\ userpass.hasPassword
    THEN [set |-> TRUE, User |-> userpass.Username, Password |-> userpass.Password]
    ELSE NoAuth

\* makeProxyDialer: auth is made when the URL has user-info; the password is
\* set when the user-info has one and is the empty string otherwise.
authOf(userpass) ==
    IF userpass.set
    THEN [set |-> TRUE, User |-> userpass.Username,
          Password |-> IF userpass.hasPassword THEN userpass.Password ELSE <<>>]
    ELSE NoAuth

\* The padding character "=" of base64, next to the 64 values of a digit.
Pad == 64

\* base64.StdEncoding.EncodeToString: three bytes to four digits, padded.
RECURSIVE EncodeToString(_)
EncodeToString(b) ==
    IF Len(b) = 0 THEN <<>>
    ELSE IF Len(b) = 1
    THEN <<b[1] \div 4, (b[1] % 4) * 16, Pad, Pad>>
    ELSE IF Len(b) = 2
    THEN <<b[1] \div 4, (b[1] % 4) * 16 + b[2] \div 16, (b[2] % 16) * 4, Pad>>
    ELSE <<b[1] \div 4, (b[1] % 4) * 16 + b[2] \div 16,
           (b[2] % 16) * 4 + b[3] \div 64, b[3] % 64>>
         \o EncodeToString(SubSeq(b, 4, Len(b)))

\* What a proxy reads back from the digits: base64 decoding.
RECURSIVE DecodeString(_)
DecodeString(e) ==
    IF Len(e) < 4 THEN <<>>
    ELSE (IF e[3] = Pad
          THEN <<e[1] * 4 + e[2] \div 16>>
          ELSE IF e[4] = Pad
          THEN <<e[1] * 4 + e[2] \div 16, (e[2] % 16) * 16 + e[3] \div 4>>
          ELSE <<e[1] * 4 + e[2] \div 16, (e[2] % 16) * 16 + e[3] \div 4,
                 (e[3] % 4) * 64 + e[4]>>)
         \o DecodeString(SubSeq(e, 5, Len(e)))

\* httpProxy.Dial: the Proxy-Authorization header of the CONNECT request.
ConnectHeader(auth) ==
    IF auth.set
    THEN [present |-> TRUE, scheme |-> "basic",
          cred |-> EncodeToString(auth.User \o Colon \o auth.Password)]
    ELSE [present |-> FALSE, scheme |-> "", cred |-> <<>>]

\* makeProxyDialer's auth for a proxy URL, and the header httpProxy.Dial sets.
CallProxyAuth(userpass) ==
    /\ nMade = 0 /\ app = NoApp
    /\ Applied("proxyAuth", userpass,
               [auth |-> authOf(userpass), header |-> ConnectHeader(authOf(userpass))])

\* const timeout = 30 * time.Second
timeout == 30

\* An *http.Client: nil, or one the caller made.
NoClient == [ptr |-> 0, Timeout |-> 0, Transport |-> NIL]
Clients == {NoClient} \cup [ptr : {1}, Timeout : {0, 5, timeout}, Transport : {NIL, "custom"}]

NewClientOf_AlwaysNew(client) == [ptr |-> 2, Timeout |-> timeout, Transport |-> NIL]

\* NewClient: the http.Client the returned Client wraps.
NewClientOf(client) ==
    IF client = NoClient
    THEN [ptr |-> 2, Timeout |-> timeout, Transport |-> NIL]
    ELSE client

CallNewClient(client) ==
    /\ nMade = 0 /\ app = NoApp
    /\ Applied("NewClient", client, NewClientOf(client))

\* A value of the Address key: an address, the bit length of its family and
\* the prefix length written after the "/" (-1 when there is none).
Prefixes ==
    [ip : {"10.0.0.2"}, len : {32}, bits : {-1, 24, 32}]
    \cup [ip : {"fd00::2"}, len : {128}, bits : {64, 128}]
AddressLists == UNION {[1..n -> Prefixes] : n \in 0..MaxAddrs}

\* An [Interface] configuration: how many such sections the file has, and the
\* keys of the section.
InterfaceConfigs ==
    [sections : 0..2, Address : AddressLists, PrivateKey : {"valid", "invalid"},
     DNS : {"8.8.8.8", "bogus"}, MTU : {"absent", "1420", "bogus"}]

\* parseCIDRNetIP: every value must parse as a prefix whose length is that of
\* a single address; the first that does not is the error.
parseCIDRNetIP(list) ==
    LET bad == {i \in 1..Len(list) : list[i].bits # list[i].len} IN
    IF bad = {}
    THEN [ok |-> TRUE, err |-> "", ips |-> [i \in 1..Len(list) |-> list[i].ip]]
    ELSE LET i == CHOOSE j \in bad : \A k \in bad : j <= k IN
         [ok |-> FALSE,
          err |-> IF list[i].bits < 0 THEN "parse prefix"
                  ELSE "interface address subnet should be /32 for IPv4 and /128 for IPv6",
          ips |-> <<>>]

\* parseInterface: one [Interface] section, then Address, PrivateKey, DNS, MTU.
parseInterface(f) ==
    IF f.sections # 1
    THEN [ok |-> FALSE, err |-> "one and only one [Interface] is expected"]
    ELSE IF ~parseCIDRNetIP(f.Address).ok
    THEN [ok |-> FALSE, err |-> parseCIDRNetIP(f.Address).err]
    ELSE IF f.PrivateKey # "valid"
    THEN [ok |-> FALSE, err |-> "invalid base64 string"]
    ELSE IF f.DNS = "bogus"
    THEN [ok |-> FALSE, err |-> "parse addr"]
    ELSE IF f.MTU = "bogus"
    THEN [ok |-> FALSE, err |-> "parse int"]
    ELSE [ok |-> TRUE, err |-> ""]

\* The example in the documentation of ViaWireGuard.
DocumentedExample ==
    [sections |-> 1, Address |-> <<[ip |-> "10.0.0.2", len |-> 32, bits |-> 24]>>,
     PrivateKey |-> "valid", DNS |-> "8.8.8.8", MTU |-> "absent"]

\* ViaWireGuard, up to its call of parseInterface.
CallParseInterface(f) ==
    /\ nMade = 0 /\ app = NoApp
    /\ Applied("parseInterface", f, parseInterface(f))

\* The documented example with the prefix length parseCIDRNetIP accepts.
SingleAddressExample ==
    [DocumentedExample EXCEPT !.Address = <<[ip |-> "10.0.0.2", len |-> 32, bits |-> 32]>>]

\* What ViaWireGuard meets: whether the reader loads as an ini file; the
\* WGConfig key of the root section (absent, loadable or not); the [Interface]
\* section; whether parsePeer accepts the [Peer] section; whether
\* netstack.CreateNetTUN, the device's IpcSet and its Up succeed.
WGInterfaces == {DocumentedExample, SingleAddressExample}
WGSetups ==
    [load : BOOLEAN, wgconfig : {"absent", "ok", "bad"}, iface : WGInterfaces,
     peer : BOOLEAN, tun : BOOLEAN, ipcset : BOOLEAN, up : BOOLEAN]
\* The clients a Client wraps: NewClient never wraps nil.
WGClients == Clients \ {NoClient}

\* The first step of ViaWireGuard and newWireGuardClient that returns an
\* error, in the order of the code, "none" when the setup succeeds.
FirstFailure(e) ==
    IF ~e.load THEN "load"
    ELSE IF e.wgconfig = "bad" THEN "wgconfig"
    ELSE IF ~parseInterface(e.iface).ok THEN "interface"
    ELSE IF ~e.peer THEN "peer"
    ELSE IF ~e.tun THEN "tun"
    ELSE IF ~e.ipcset THEN "ipcset"
    ELSE IF ~e.up THEN "up"
    ELSE "none"

ViaWireGuard_TransportBeforeUp(client, e) ==
    [ok |-> FirstFailure(e) = "none", failed |-> FirstFailure(e),
     client |-> IF FirstFailure(e) \in {"none", "ipcset", "up"}
                THEN [client EXCEPT !.Transport = "wireguard"]
                ELSE client]

\* ViaWireGuard: whether it returned no error, the step that failed, and the
\* wrapped client afterwards. The transport over the tunnel is assigned after
\* the last step that can fail.
ViaWireGuard(client, e) ==
    [ok |-> FirstFailure(e) = "none", failed |-> FirstFailure(e),
     client |-> IF FirstFailure(e) = "none"
                THEN [client EXCEPT !.Transport = "wireguard"]
                ELSE client]

CallViaWireGuard(client, e) ==
    /\ nMade = 0 /\ app = NoApp
    /\ Applied("ViaWireGuard", [client |-> client, setup |-> e], ViaWireGuard(client, e))

InitFn == Init /\ proxyEnv = "live"

NextFn ==
    \/ \E p \in ProxySpecs, ch \in HelloOptions, cfg \in Configs : Construct(p, ch, cfg)
    \/ \E host \in DialHosts : UTLSForwardDial(host)
    \/ UTLSProxyHandshake
    \/ UTLSClient
    \/ UTLSHandshake
    \/ \E scheme \in ProxySchemes, hasPort \in BOOLEAN : CallAddrForDial(scheme, hasPort)
    \/ \E options \in OptionLists : CallUTLSOptions(options)
    \/ \E userpass \in UserInfos : CallProxyAuth(userpass)
    \/ \E client \in Clients : CallNewClient(client)
    \/ \E f \in InterfaceConfigs : CallParseInterface(f)
    \/ \E client \in WGClients, e \in WGSetups : CallViaWireGuard(client, e)

SpecFn == InitFn /\ [][NextFn]_vars

\* ------------------------------------------- instances and their transports

Clone_Alias(t, fresh) == t

\* http.Transport.Clone: a new object with the fields of t.
Clone(t, fresh) == fresh

\* The objects after tr := httpRoundTripper.Clone() and the assignment of one
\* field of tr.
CloneAndSet(o, field, value) ==
    LET tr == Clone(0, o.next) IN
    [o EXCEPT !.heap = [t \in TransportIds |->
                          IF t = tr THEN [o.heap[0] EXCEPT ![field] = value]
                          ELSE o.heap[t]],
              !.next = o.next + 1]

\* NewUTLSRoundTripper(Proxy(p)): when the dialer chain is resolved, httpRT is
\* a clone of httpRoundTripper with its Proxy set; otherwise nothing is made.
NewInstance(p) ==
    /\ Len(objs.insts) < MaxInstances
    /\ LET r == makeProxyDialer(p) IN
        objs' = IF r.ok
                THEN [CloneAndSet(objs, "Proxy", r.proxyURL) EXCEPT
                         !.insts = Append(@, [httpRT |-> Clone(0, objs.next),
                                              proxyURL |-> r.proxyURL,
                                              engine |-> 0, kind |-> NIL])]
                ELSE objs
    /\ UNCHANGED <<shared, made, nMade, dl, sent, app>>

\* The first HTTPS request of instance n whose bootstrap succeeds:
\* makeRoundTripper builds the engine for the protocol negotiated, an
\* http2.Transport of its own, or a clone of httpRoundTripper whose DialTLS is
\* the instance's dialTLS.
MakeEngine(n, negotiated) ==
    /\ n \in 1..Len(objs.insts)
    /\ objs.insts[n].kind = NIL
    /\ objs' = IF EngineKind(negotiated) = "http.Transport"
               THEN [CloneAndSet(objs, "DialTLS", n) EXCEPT
                        !.insts[n].engine = Clone(0, objs.next),
                        !.insts[n].kind = "http.Transport"]
               ELSE [objs EXCEPT !.insts[n].kind = "http2.Transport"]
    /\ UNCHANGED <<shared, made, nMade, dl, sent, app>>

InitObj == Init /\ proxyEnv = "live"

NextObj ==
    \/ \E p \in ProxySpecs : NewInstance(p)
    \/ \E n \in 1..MaxInstances, negotiated \in Protocols : MakeEngine(n, negotiated)

SpecObj == InitObj /\ [][NextObj]_vars

\* ------------------------------------------------------------------ claims

\* The records of the calls in progress and of the call that has just returned.
Records == {log[c] : c \in Callers} \cup {last}

\* A caller is inside makeRoundTripper, dialing the bootstrap connection.
Bootstrapping(c) == pc[c] = "dialing" /\ d[c].ctx = "boot"

\* The request of record x was handed to a transport.
Forwarded(x) == x.via = "httpRT" \/ (x.via = "rt" /\ x.engine # NoEngine)

\* C1, as claimed: N concurrent first HTTPS calls perform exactly one bootstrap
\* handshake in total and are all forwarded to one engine.
C1_Original ==
    /\ nBootHS <= 1
    /\ Cardinality(engines) <= 1

\* C1, amended: at most one bootstrap is in progress at a time, and it is its
\* caller that holds rtLock; at most one bootstrap handshake ever succeeds and
\* none is performed once an engine is bound; a caller that comes out of the
\* mutex without having bootstrapped found the winner's engine; every forwarded
\* HTTPS request goes to that one engine. (A failed bootstrap handshake leaves
\* the next caller to perform its own.)
C1_SingleFlight ==
    /\ Cardinality({c \in Callers : Bootstrapping(c)}) <= 1
    /\ \A c \in Callers : (Bootstrapping(c) \/ pc[c] = "unlock") => rtLock = c
    /\ nBootOK <= 1
    /\ nBootOK = 1 <=> rt # NoEngine
    /\ rt # NoEngine => \A c \in Callers : ~Bootstrapping(c)
    /\ \A c \in Callers : (pc[c] = "unlock" /\ log[c].boot = "none") => rt # NoEngine
    /\ \A c \in Callers : pc[c] \in {"fwd", "dtake"} => log[c].engine = rt
    /\ engines \subseteq {rt} \ {NoEngine}

\* Two first calls overlap: one has bootstrapped and been forwarded, the other
\* comes out of the mutex having found the engine, after a single handshake.
C1_Witness ==
    \E c1, c2 \in Callers :
        /\ c1 # c2 /\ calls[c1] = 1 /\ calls[c2] = 1
        /\ pc[c1] = "fwd" /\ log[c1].boot = "ok"
        /\ pc[c2] = "unlock" /\ log[c2].boot = "none"
        /\ nBootHS = 1

\* C2: the bootstrap connection is returned by at most one invocation of the
\* dial callback, the first to take the hand-off lock; every other invocation
\* dials afresh (and returns only a connection that went through a handshake);
\* the slot is empty once the first invocation has returned.
C2_HandoffOnce ==
    /\ nHandoff <= 1
    /\ nHandoff = 1 => bootstrapConn = NoConn
    /\ nDialTLS >= 1 =>
          (bootstrapConn = NoConn \/ \E c \in Callers : pc[c] = "dtake" /\ lock = c)
    /\ \A c \in Callers : pc[c] = "dtake" => (log[c].first /\ lock = c)
    /\ \A x \in Records :
        /\ x.how = "handoff" => x.first
        /\ x.how = "fresh" => ~x.first
        /\ (x.how = "fresh" /\ x.dialRet = "conn") => x.neg \in Protocols
    /\ \A c \in Callers : log[c].how = "fresh" => (pc[c] = "dialing" /\ d[c].ctx = "dial")

\* After the hand-off another invocation has dialed afresh and returned its
\* own connection.
C2_Witness ==
    /\ nHandoff = 1
    /\ bootstrapConn = NoConn
    /\ last.how = "fresh" /\ last.dialRet = "conn"
    /\ pool = 2

\* The binding state of the instance.
BindState ==
    IF rt # NoEngine THEN "Bound"
    ELSE IF \E c \in Callers : Bootstrapping(c) THEN "Bootstrapping"
    ELSE "Uninitialized"

\* C3: Bound is entered only from Bootstrapping, and is terminal: once u.rt is
\* an engine, no step changes it or the protocol it was bound for.
C3_BindingTerminal ==
    [][/\ rt # NoEngine => (rt' = rt /\ protocol' = protocol)
       /\ (rt = NoEngine /\ rt' # NoEngine) => BindState = "Bootstrapping"]_vars

\* A later dial has failed on a protocol mismatch and the engine is still bound.
C3_Witness ==
    /\ rt # NoEngine
    /\ last.err = "unexpected switch from ALPN"
    /\ last.boot = "none"

\* C4: the engine bound is http2.Transport exactly when the bootstrap
\* connection negotiated "h2", http.Transport for any other protocol, and
\* either is given the dialTLS callback.
C4_EngineByProtocol ==
    /\ bootstrapConn # NoConn => bootstrapConn.proto = protocol
    /\ rt # NoEngine =>
        /\ protocol \in Protocols
        /\ rt.kind \in {"http2.Transport", "http.Transport"}
        /\ rt.kind = "http2.Transport" <=> protocol = "h2"
        /\ rt.dial = "dialTLS"

\* A bootstrap that negotiated no protocol bound the sequential engine, whose
\* first dial was handed the bootstrap connection.
C4_Witness ==
    /\ protocol = ""
    /\ rt.kind = "http.Transport"
    /\ last.how = "handoff" /\ last.dialRet = "conn"

\* C5: a fresh dial whose handshake negotiates another protocol than the
\* recorded one returns the error naming both and no connection, in the same
\* step (no second attempt), and leaves the engine as it is; one that
\* negotiates the recorded protocol returns its connection.
C5_ProtocolConsistency ==
    /\ [](\A x \in Records :
            (x.how = "fresh" /\ x.neg # "-") =>
                IF x.neg # protocol
                THEN /\ x.dialRet = "err" /\ x.ret = "err"
                     /\ x.err = "unexpected switch from ALPN"
                     /\ x.from = protocol /\ x.to = x.neg
                ELSE x.dialRet = "conn")
    /\ [][\A c \in Callers :
            (pc[c] = "dialing" /\ d[c].ctx = "dial" /\ d[c].stage = "hs"
               /\ last'.neg \notin {"-", protocol})
            => (pc'[c] = "idle" /\ pool' = pool /\ rt' = rt /\ protocol' = protocol)]_vars

\* The engine was bound for HTTP/1.1 and a later dial negotiated h2.
C5_Witness ==
    /\ protocol = "http/1.1"
    /\ last.how = "fresh" /\ last.neg = "h2" /\ last.dialRet = "err"

\* C6: with a proxy of scheme http, https or socks5 that closes every
\* connection without speaking, no connection, direct or tunnelled, reaches
\* the origin, no engine is bound, and every call returns an error.
C6_DeadProxy ==
    (inst.st = "ok" /\ inst.asked \in {"http", "https", "socks5"} /\ proxyEnv = "dead")
    => /\ ~originReached
       /\ rt = NoEngine
       /\ last.ret \in {"none", "err"}

\* Behind a dead https proxy an HTTPS call has failed in the handshake with
\* the proxy, and now a plain call has failed too.
C6_Witness ==
    /\ proxyEnv = "dead" /\ inst.asked = "https"
    /\ last.scheme = "http" /\ last.ret = "err"
    /\ \E c \in Callers : pc[c] = "unlock" /\ log[c].err = "proxy handshake"

\* C7: a call for an http URL is delegated to the plain transport in one step
\* that leaves the binding, the locks and the hand-off slot as they are; it
\* never holds rtLock or the hand-off lock, and it can run whatever the state
\* of rtLock.
C7_PlainBypass ==
    /\ [](\A c \in Callers :
            (Running /\ pc[c] = "call" /\ req[c].scheme = "http")
            => ENABLED RoundTripPlain(c))
    /\ [](\A c \in Callers :
            req[c].scheme = "http" => (pc[c] = "call" /\ rtLock # c /\ lock # c))
    /\ [][\A c \in Callers :
            (pc[c] = "call" /\ req[c].scheme = "http" /\ pc'[c] # "call")
            => /\ pc'[c] = "idle" /\ last'.via = "httpRT"
               /\ UNCHANGED <<binding, counters, engines>>]_vars

\* A plain call has returned while another caller was inside the bootstrap.
C7_Witness ==
    /\ last.via = "httpRT" /\ last.lockHeld
    /\ \E c \in Callers : Bootstrapping(c) /\ rtLock = c

\* C8, as claimed: every forwarded request carries the default User-Agent when
\* it came without one, and its own otherwise.
C8_Original ==
    \A x \in Records :
        Forwarded(x) => x.ua = (IF x.agent = "" THEN useragent ELSE x.agent)

\* C9: httpProxy.Dial returns the connection to the proxy only after a reply
\* with status 200, and every error it returns once that connection is open
\* finds the connection closed.
C9_ConnectDial ==
    \A x \in Records :
        /\ x.proxyRet = "conn" => (~x.reply.err /\ x.reply.status = 200 /\ x.pconn = "open")
        /\ (x.proxyRet = "err" /\ x.tunnel # "none") => x.pconn = "closed"

\* The proxy refused the CONNECT with 407: the dial failed and closed.
C9_Witness ==
    /\ last.proxyRet = "err" /\ last.tunnel = "read"
    /\ last.reply.status = 407
    /\ last.pconn = "closed"

\* C10: a CONNECT reply that leaves a byte in the reader makes httpProxy.Dial
\* panic, whatever the status or the read error; a connection is returned only
\* with an empty reader.
C10_LeftoverIsFatal ==
    \A x \in Records :
        /\ x.reply.buffered > 0 => x.proxyRet = "panic"
        /\ x.proxyRet \in {"conn", "err"} => x.reply.buffered = 0

\* A 200 reply with a byte behind it: the dial panicked.
C10_Witness ==
    /\ last.proxyRet = "panic"
    /\ last.reply.status = 200 /\ ~last.reply.err
    /\ last.reply.buffered > 0

\* The order of the steps of one dial.
StageRank(stage) ==
    CASE stage = "connect" -> 1
      [] stage = "phs" -> 2
      [] stage = "socks" -> 2
      [] stage = "cwrite" -> 3
      [] stage = "cread" -> 4
      [] stage = "hs" -> 5
      [] OTHER -> 6

\* C14: no retry. A dial calls forward.Dial of its first hop at most once and
\* every step of it is a later step of the same dial; a call whose bootstrap dial has ended
\* starts no other; a failure in a dial of the callback ends the call with the
\* error in that step, and a failure in the bootstrap dial takes the call to
\* the Unlock, from where its only step is to return that error.
C14_NoRetry ==
    /\ [](\A c \in Callers :
            /\ d[c].tries <= 1
            /\ (pc[c] = "unlock" /\ log[c].boot = "err") => d[c].stage = "none")
    /\ [][\A c \in Callers :
            /\ (pc[c] = "dialing" /\ pc'[c] = "dialing" /\ d'[c] # d[c])
                => /\ d'[c].ctx = d[c].ctx
                   /\ StageRank(d'[c].stage) > StageRank(d[c].stage)
            /\ log[c].boot # "none" => ~Bootstrapping(c)'
            /\ (Bootstrapping(c) /\ pc'[c] # "dialing")
                => \/ pc'[c] = "unlock" /\ log'[c].boot \in {"ok", "err"}
                   \/ pc'[c] = "panicked"
            /\ (pc[c] = "dialing" /\ d[c].ctx = "dial" /\ pc'[c] # "dialing")
                => /\ last'.dialRet \in {"conn", "err", "panic"}
                   /\ last'.dialRet = "err" => (pc'[c] = "idle" /\ last'.ret = "err")
            /\ (pc[c] = "unlock" /\ log[c].boot = "err" /\ pc'[c] # "unlock")
                => (pc'[c] = "idle" /\ last'.ret = "err" /\ last'.err = log[c].err)]_vars

\* The CONNECT through an http proxy was refused during the bootstrap: the call
\* has returned that error after one connect and no handshake.
C14_Witness ==
    /\ last.boot = "err" /\ last.ret = "err"
    /\ last.err = "proxy server returned"
    /\ nBootHS = 0 /\ rt = NoEngine

\* C15: a call whose bootstrap dial failed holds rtLock with no engine bound
\* and no bootstrap connection kept; its next step returns the error of the
\* dial and releases rtLock, leaving the instance Uninitialized; an HTTPS call
\* that then takes rtLock starts a new bootstrap, and a bootstrap that succeeds
\* binds an engine.
C15_FailedBootstrapRetryable ==
    /\ [](\A c \in Callers :
            /\ (pc[c] = "unlock" /\ log[c].boot = "err")
                => (rt = NoEngine /\ bootstrapConn = NoConn /\ rtLock = c)
            /\ (Running /\ pc[c] = "call" /\ req[c].scheme = "https" /\ rtLock = NONE)
                => ENABLED HTTPSLock(c))
    /\ [][\A c \in Callers :
            /\ (pc[c] = "unlock" /\ log[c].boot = "err" /\ pc'[c] # "unlock")
                => /\ last'.ret = "err" /\ last'.err = log[c].err
                   /\ rtLock' = NONE /\ rt' = NoEngine /\ bootstrapConn' = NoConn
                   /\ BindState' = "Uninitialized"
            /\ (pc[c] = "call" /\ rtLock' = c /\ rt = NoEngine) => Bootstrapping(c)'
            /\ (Bootstrapping(c) /\ log'[c].boot = "ok")
                => (rt' # NoEngine /\ bootstrapConn' # NoConn)]_vars

\* After a bootstrap handshake that failed, a second one has succeeded and the
\* engine is bound.
C15_Witness ==
    /\ nBootHS = 2 /\ nBootOK = 1
    /\ rt # NoEngine
    /\ \E c \in Callers : pc[c] = "unlock" /\ log[c].boot = "ok"

\* C20, as claimed: once an engine is bound, no call acquires rtLock.
C20_Original ==
    [][\A c \in Callers : (rt # NoEngine /\ rtLock # c) => rtLock' # c]_vars

\* C20, amended: once an engine is bound, a call takes rtLock only to test
\* u.rt: it starts no bootstrap and no dial under it, and whoever holds rtLock
\* is at the Unlock, so that rtLock is never held across a network operation
\* and the call is forwarded to the bound engine.
C20_HotPath ==
    /\ [](rt # NoEngine =>
            /\ \A c \in Callers : ~Bootstrapping(c)
            /\ rtLock # NONE => pc[rtLock] = "unlock")
    /\ [][\A c \in Callers :
            /\ (rt # NoEngine /\ pc[c] = "call" /\ rtLock' = c)
                => (pc'[c] = "unlock" /\ d'[c] = NoDial /\ log'[c].boot = "none")
            /\ (rt # NoEngine /\ pc[c] = "unlock" /\ pc'[c] # "unlock")
                => (pc'[c] = "fwd" /\ log'[c].engine = rt /\ rtLock' = NONE)]_vars

\* A caller's second call, on the bound instance, is at the Unlock holding
\* rtLock, having started no bootstrap.
C20_Witness ==
    \E c \in Callers :
        /\ calls[c] = 2 /\ nBootOK = 1 /\ pool >= 1
        /\ pc[c] = "unlock" /\ rtLock = c /\ log[c].boot = "none"

\* The dial callback of caller c is in the network phase of a fresh dial.
FreshDialing(c) == pc[c] = "dialing" /\ d[c].ctx = "dial"

\* C21, as claimed: while one caller's fresh dial is in its network phase,
\* another caller whose request needs a fresh connection (the hand-off slot is
\* empty) can enter the dial callback and start its own dial.
C21_Original ==
    \A c1, c2 \in Callers :
        (Running /\ c1 # c2 /\ FreshDialing(c1) /\ pc[c2] = "fwd" /\ bootstrapConn = NoConn)
        => ENABLED DialTLSLock(c2)

\* The steps of a dial through each dialer, each with the step it follows.
ChainSteps(dialer) ==
    CASE dialer = "socks5" -> {<<"connect", "socks">>, <<"socks", "hs">>}
      [] dialer = "http" -> {<<"connect", "cwrite">>, <<"cwrite", "cread">>, <<"cread", "hs">>}
      [] dialer = "https" -> {<<"connect", "phs">>, <<"phs", "cwrite">>,
                              <<"cwrite", "cread">>, <<"cread", "hs">>}
      [] OTHER -> {<<"connect", "hs">>}

\* C22: a dial goes from one step to the next of its chain only, a step being
\* taken when the one before has succeeded: the connection to the proxy, then
\* the handshake with an https proxy, then the CONNECT request, then its
\* reply, or the SOCKS5 exchange; the handshake with the target starts only
\* on an open tunnel, which for a CONNECT proxy is one whose reply was read
\* without error, with status 200 and nothing left in the reader.
C22_ChainOrder ==
    /\ [](\A c \in Callers : pc[c] = "dialing" =>
            /\ d[c].stage \in {"phs", "socks", "cwrite", "cread"} => d[c].pconn = "open"
            /\ d[c].stage = "hs" =>
                CASE inst.dialer = "socks5" -> d[c].pconn = "open"
                  [] inst.dialer \in {"http", "https"} ->
                        /\ d[c].pconn = "open"
                        /\ log[c].tunnel = "read" /\ log[c].proxyRet = "conn"
                        /\ ~log[c].reply.err /\ log[c].reply.status = 200
                        /\ log[c].reply.buffered = 0
                  [] OTHER -> d[c].pconn = "none" /\ log[c].tunnel = "none")
    /\ [][\A c \in Callers :
            (pc[c] = "dialing" /\ pc'[c] = "dialing" /\ d'[c].stage # d[c].stage)
            => <<d[c].stage, d'[c].stage>> \in ChainSteps(inst.dialer)]_vars

\* Through an https proxy a dial has reached the handshake with the target.
C22_Witness ==
    \E c \in Callers :
        /\ inst.dialer = "https" /\ pc[c] = "dialing" /\ d[c].stage = "hs"
        /\ log[c].reply.status = 200

\* C25: with no proxy given construction succeeds with the direct dialer and
\* no proxy URL for the plain transport; every dial of the instance goes from
\* its connect, which is a connection to the origin, to the handshake with
\* nothing in between and no connection to a proxy, and a plain request that
\* succeeds has reached the origin, whatever the proxy of the environment does.
C25_NoProxyDirect ==
    (inst.st # "none" /\ inst.asked = "nil") =>
        /\ inst.st = "ok"
        /\ inst.dialer = "direct" /\ inst.proxyURL = NIL
        /\ \A c \in Callers : pc[c] = "dialing" =>
            /\ d[c].stage \in {"connect", "hs"} /\ d[c].pconn = "none"
            /\ d[c].stage = "hs" => originReached
        /\ \A x \in Records :
            /\ x.tunnel = "none" /\ x.proxyRet = "none" /\ x.pconn = "none"
            /\ (x.via = "httpRT" /\ x.ret = "ok") => originReached

\* Without a proxy, and with the environment's proxy dead, a plain request has
\* succeeded and a bootstrap dial is at its handshake with the origin.
C25_Witness ==
    /\ inst.st = "ok" /\ inst.asked = "nil" /\ proxyEnv = "dead"
    /\ last.via = "httpRT" /\ last.ret = "ok"
    /\ \E c \in Callers : Bootstrapping(c) /\ d[c].stage = "hs"

\* C28, as claimed: every connection the dial callback returns for an address
\* was established to that address; the bootstrap connection, established to
\* the address of the request that bootstrapped, is never handed to a dial for
\* another address.
C28_Original ==
    \A x \in Records : x.dialRet = "conn" => x.connTo = x.addr

\* C29, as claimed: a later dial that fails the protocol-consistency check has
\* closed the connection it established when it returns the error, and every
\* connection a call of the dial callback opened has, when the callback
\* returns, been returned to the engine or closed.
C29_Original ==
    \A x \in Records :
        /\ x.err = "unexpected switch from ALPN" => x.conn = "closed"
        /\ (x.how = "fresh" /\ x.dialRet \in {"conn", "err"}) => x.conn # "open"

\* C30, as claimed: a spoofed handshake step that fails after its underlying
\* connection was opened, towards the origin or towards an https proxy, has
\* closed that connection when the error is returned.
C30_Original ==
    \A x \in Records :
        x.err \in {"handshake", "proxy handshake"} => x.conn = "closed"

\* A caller that is outside RoundTrip: it has not called it, or its call has
\* returned or was unwound by a panic.
Outside(c) == pc[c] \in {"idle", "panicked"}

\* C31, as claimed: no caller holds the initialisation mutex and the hand-off
\* mutex at the same time, and a caller whose call has left the section a
\* mutex guards, by a return or by a panic of the dial inside it, no longer
\* holds that mutex, so a mutex is only ever held by a call still at work.
C31_Original ==
    \A c \in Callers :
        /\ ~(rtLock = c /\ lock = c)
        /\ Outside(c) => (rtLock # c /\ lock # c)

\* C32, as claimed: an instance constructed with a proxy argument that is not
\* nil, whatever its shape, opens no connection that does not go to the proxy
\* first: a dial that has come to the handshake with the target has a
\* connection to the proxy under it, and a plain request that was carried out
\* went through a transport whose Proxy is set.
C32_Original ==
    (inst.st = "ok" /\ inst.asked # "nil")
    => /\ \A c \in Callers :
            (pc[c] = "dialing" /\ d[c].stage = "hs") => d[c].pconn = "open"
       /\ \A x \in Records :
            (x.via = "httpRT" /\ x.ret # "none") => inst.proxyURL # NIL

\* A call whose request has a URL scheme other than http and https.
OtherScheme(c) == pc[c] # "idle" /\ req[c].scheme \notin {"", "http", "https"}

\* C33: a call for a URL scheme other than http and https can return whatever
\* the state of the instance and of its locks; it never holds rtLock or the
\* hand-off lock and never dials; and it ends in one step that returns the
\* error naming the scheme and leaves the binding, the hand-off slot, the
\* engines and the network as they are.
C33_UnsupportedScheme ==
    /\ [](\A c \in Callers :
            (Running /\ OtherScheme(c)) => ENABLED RoundTripUnsupported(c))
    /\ [](\A c \in Callers :
            OtherScheme(c) => (pc[c] = "call" /\ rtLock # c /\ lock # c /\ d[c] = NoDial))
    /\ [][\A c \in Callers :
            (OtherScheme(c) /\ pc'[c] # pc[c])
            => /\ pc'[c] = "idle"
               /\ last'.ret = "err" /\ last'.err = "unsupported URL scheme"
               /\ last'.from = req[c].scheme
               /\ UNCHANGED <<binding, counters, engines, originReached, inst>>]_vars

\* An ftp call has returned its error while another caller held rtLock inside
\* the bootstrap.
C33_Witness ==
    /\ last.via = "unsupported" /\ last.from = "ftp" /\ last.ret = "err"
    /\ \E c \in Callers : Bootstrapping(c) /\ rtLock = c

\* ------------------------------------------------ claims checked on SpecFn

\* The last construction: its proxy argument and the result of makeProxyDialer.
Constructed == app.fn = "NewUTLSRoundTripper"

\* C11: construction returns a round tripper exactly when makeProxyDialer
\* returns no error; for a proxy given as a URL (string, *url.URL, or the
\* address of a net.Dialer) that happens only for the schemes socks5, http and
\* https, and for any other scheme the error names the scheme and no round
\* tripper is returned; without a proxy it returns one.
C11_ConstructionByScheme ==
    Constructed =>
        LET p == app.arg
            r == app.res
        IN
        /\ made.st = "ok" <=> r.ok
        /\ (p.shape \in ParsedShapes /\ r.ok) => p.scheme \in {"socks5", "http", "https"}
        /\ (p.shape \in ParsedShapes /\ p.scheme \in ProxySchemes \ {"socks5", "http", "https"})
            => /\ ~r.ok /\ made.st = "err"
               /\ r.err \in {"unsupported URL scheme", "cannot use proxy scheme"}
               /\ r.named = p.scheme
        /\ p.shape = "nil" => (r.ok /\ made.proxyDialer = "direct")

\* A *url.URL of scheme ftp with a port was refused by the switch on the scheme.
C11_Witness ==
    /\ Constructed
    /\ app.arg = [shape |-> "urlptr", scheme |-> "ftp", port |-> TRUE]
    /\ made.st = "err"
    /\ app.res.err = "cannot use proxy scheme" /\ app.res.named = "ftp"

\* The Client Hello carries the server_name extension.
HasServerName(hello) == \E i \in 1..Len(hello.exts) : IsServerName(hello.exts[i])

\* C12: the server name of the connection is the ServerName of the config when
\* it has one, whatever the host dialed; without one (or without a config) it
\* is the host dialed when that is a name, and none when it is an IP address;
\* the Client Hello carries server_name exactly when there is a server name.
C12_ServerName ==
    dl.stage \in {"ready", "done", "err"} /\ dl.identity # NIL =>
        LET override == made.config.set /\ made.config.ServerName # "" IN
        /\ override => dl.sni = made.config.ServerName
        /\ (~override /\ ~IsIP(dl.host)) => dl.sni = dl.host
        /\ (~override /\ IsIP(dl.host)) => dl.sni = ""
        /\ dl.hello # NoHello => (HasServerName(dl.hello) <=> dl.sni # "")

\* An instance without a ServerName dialed an IP address and sent no
\* server_name; the next one, with the override, dialed the IP address and
\* sent the override.
C12_Witness ==
    /\ Len(sent) = 2
    /\ sent[1].sni = "" /\ ~HasServerName(sent[1].hello)
    /\ dl.stage = "done" /\ IsIP(dl.host)
    /\ made.config.ServerName = "test.example"
    /\ dl.sni = "test.example" /\ HasServerName(dl.hello)

\* C13, as claimed: an instance constructed without the ClientHello option
\* goes through UClient with the default identity, and does not panic.
C13_Original ==
    (made.st = "ok" /\ made.clientHelloID = NIL)
    => /\ dl.stage # "panic"
       /\ dl.stage \in {"ready", "done"} => dl.identity = defaultClientHelloID

\* C16: addrForDial keeps an explicit port whatever the scheme, gives 80 to
\* http and 443 to https without one, and fails for any other scheme without
\* one; so construction with a URL of another scheme (socks5 too) and no port
\* fails on the address.
C16_AddrForDial ==
    /\ app.fn = "addrForDial" =>
        LET a == app.arg
            r == app.res
        IN
        /\ a.port => (r.ok /\ r.port = "explicit")
        /\ (~a.port /\ a.scheme = "http") => (r.ok /\ r.port = "80")
        /\ (~a.port /\ a.scheme = "https") => (r.ok /\ r.port = "443")
        /\ (~a.port /\ a.scheme \notin {"http", "https"}) => ~r.ok
    /\ (Constructed /\ app.arg.shape \in ParsedShapes /\ ~app.arg.port
          /\ app.arg.scheme \in ProxySchemes \ {"http", "https"})
        => (made.st = "err" /\ app.res.err = "unsupported URL scheme")

\* A socks5 URL without a port: construction failed on the address.
C16_Witness ==
    /\ Constructed
    /\ app.arg = [shape |-> "string", scheme |-> "socks5", port |-> FALSE]
    /\ made.st = "err" /\ app.res.err = "unsupported URL scheme"

\* The extensions of a Client Hello other than server_name, in order.
Order(exts) == SelectSeq(exts, LAMBDA e : ~IsServerName(e))

\* C17: every Client Hello sent by an instance carries the cipher suites and
\* the extensions of the identity the instance was configured with, in that
\* identity's order, and two hellos of the same identity for the same server
\* name, sent by different instances, are the same.
C17_HelloOrder ==
    /\ \A i \in 1..Len(sent) :
        /\ sent[i].id \in HelloIDs
        /\ sent[i].hello.ciphers = CipherSuites(sent[i].id)
        /\ Order(sent[i].hello.exts) = Order(Extensions(sent[i].id))
        /\ sent[i].sni # "" => sent[i].hello.exts = Extensions(sent[i].id)
    /\ \A i, j \in 1..Len(sent) :
        (sent[i].id = sent[j].id /\ sent[i].sni = sent[j].sni)
        => sent[i].hello = sent[j].hello
    /\ dl.stage = "done" =>
        sent[Len(sent)] = [id |-> made.clientHelloID, sni |-> dl.sni, hello |-> dl.hello]

\* Two instances configured with HelloIOS_11_1 have each sent their hello.
C17_Witness ==
    /\ nMade = 2 /\ Len(sent) = 2
    /\ sent[1].id = "HelloIOS_11_1" /\ sent[2].id = "HelloIOS_11_1"
    /\ sent[1].sni = "localhost" /\ sent[2].sni = "localhost"
    /\ dl.stage = "done"

\* C18, as claimed: the interface section of the documented example parses.
C18_Original ==
    (app.fn = "parseInterface" /\ app.arg = DocumentedExample) => app.res.ok

\* C19: NewClient(nil) wraps a client that is nobody else's, with the default
\* timeout; NewClient(c) wraps c itself, its timeout and transport as they were.
C19_NewClient ==
    app.fn = "NewClient" =>
        /\ app.arg = NoClient =>
            /\ app.res.ptr \notin {c.ptr : c \in Clients}
            /\ app.res.Timeout = 30
        /\ app.arg # NoClient => app.res = app.arg

\* A client with a 5 second timeout and its own transport was wrapped as it is.
C19_Witness ==
    /\ app.fn = "NewClient"
    /\ app.arg = [ptr |-> 1, Timeout |-> 5, Transport |-> "custom"]
    /\ app.res = app.arg

C24_ProxyAuth ==
    app.fn = "proxyAuth" =>
        LET u == app.arg
            a == app.res.auth
            h == app.res.header
        IN
        /\ a.set <=> u.set
        /\ u.set => (a.User = u.Username /\ (u.hasPassword => a.Password = u.Password))
        /\ (u.set /\ ~u.hasPassword) => (a.set /\ a.Password = <<>>)
        /\ h.present <=> a.set
        /\ h.present =>
            /\ h.scheme = "basic"
            /\ Len(h.cred) % 4 = 0
            /\ DecodeString(h.cred) = u.Username \o Colon \o a.Password

\* The URL has the user name u and no password: the header is basic dTo=.
C24_Witness ==
    /\ app.fn = "proxyAuth"
    /\ app.arg = [set |-> TRUE, Username |-> <<117>>, hasPassword |-> FALSE, Password |-> <<>>]
    /\ app.res.auth.set
    /\ app.res.header.present /\ app.res.header.cred = <<29, 19, 40, Pad>>

\* The transport objects of the instances constructed so far.
InstanceObjects ==
    {objs.insts[i].httpRT : i \in 1..Len(objs.insts)}
    \cup ({objs.insts[i].engine : i \in 1..Len(objs.insts)} \ {0})

\* C26: the package's transport template keeps the fields it had, whatever is
\* constructed and dialed; the plain transport of every instance, and the
\* sequential engine of every instance that built one, is an object of its
\* own; each plain transport has the proxy resolved for its own instance and
\* no dial callback, and each sequential engine has the dial callback of its
\* own instance and the template's proxy.
C26_OwnClones ==
    /\ objs.heap[0] = Template
    /\ 0 \notin InstanceObjects
    /\ \A i \in 1..Len(objs.insts) :
        LET x == objs.insts[i] IN
        /\ objs.heap[x.httpRT] = [Proxy |-> x.proxyURL, DialTLS |-> NIL]
        /\ x.engine # x.httpRT
        /\ x.kind = "http.Transport" =>
              (x.engine # 0
                 /\ objs.heap[x.engine] = [Proxy |-> Template.Proxy, DialTLS |-> i])
        /\ \A j \in 1..Len(objs.insts) :
            i # j => /\ x.httpRT # objs.insts[j].httpRT
                     /\ {x.httpRT, x.engine} \cap {objs.insts[j].engine} \subseteq {0}

\* An instance with an http proxy and one without have each built a
\* sequential engine, the second instance first: four objects besides the
\* template.
C26_Witness ==
    /\ Len(objs.insts) = 2
    /\ objs.insts[1].proxyURL = "http" /\ objs.insts[2].proxyURL = NIL
    /\ objs.insts[1].kind = "http.Transport" /\ objs.insts[2].kind = "http.Transport"
    /\ objs.insts[2].engine < objs.insts[1].engine
    /\ Cardinality(InstanceObjects) = 4

\* The places of the options of a list that set the given field.
Setting(options, field) == {i \in 1..Len(options) : options[i].field = field}

\* C27: UTLSOptions gives each field the value of the last option that sets
\* it, and the zero value when none does, and touches no network; the step
\* that constructs an instance, whatever the proxy, starts no dial and sends
\* no Client Hello; until the dial of its first HTTPS RoundTrip an instance
\* has connected nowhere and its configs are as they were given; a Client
\* Hello is sent only by the handshake step of such a dial.
C27_NoNetworkBeforeRoundTrip ==
    /\ [](app.fn = "UTLSOptions" =>
            /\ \A f \in {"proxy", "clientHello", "config"} :
                LET at == Setting(app.arg, f) IN
                app.res[f] = IF at = {} THEN NoUTLS[f]
                             ELSE app.arg[CHOOSE i \in at : \A j \in at : j <= i].value
            /\ dl = NoDl /\ sent = <<>>)
    /\ [](dl.stage = "none" =>
            /\ dl = NoDl
            /\ made.st = "ok" => (made.cells.cfg = made.config /\ made.cells.clone = made.config))
    /\ [][/\ nMade' # nMade => (dl' = NoDl /\ sent' = sent)
          /\ sent' # sent => (dl.stage = "ready" /\ nMade' = nMade)
          /\ (dl.stage = "none" /\ dl'.stage # "none") => (made.st = "ok" /\ nMade' = nMade)]_vars

\* After an instance that sent its Client Hello, an instance has been
\* constructed with an https proxy and a config: no dial has started, no
\* second hello was sent, its configs are untouched.
C27_Witness ==
    /\ nMade = 2 /\ Len(sent) = 1
    /\ made.st = "ok" /\ made.proxyDialer = "https" /\ made.config.set
    /\ dl = NoDl

\* Every step of the setup succeeded.
WholeSetup(e) ==
    /\ e.load /\ e.wgconfig # "bad" /\ parseInterface(e.iface).ok
    /\ e.peer /\ e.tun /\ e.ipcset /\ e.up

\* C34: ViaWireGuard returns no error exactly when the whole setup succeeded,
\* and then the client's transport is the one over the tunnel; when it
\* returns an error, whichever step failed, the client is as it was before
\* the call, its transport included.
C34_TransportOnSuccess ==
    app.fn = "ViaWireGuard" =>
        /\ app.res.ok <=> WholeSetup(app.arg.setup)
        /\ app.res.ok => app.res.client = [app.arg.client EXCEPT !.Transport = "wireguard"]
        /\ ~app.res.ok => app.res.client = app.arg.client

\* The device was configured and failed to come up: the client still has the
\* transport its owner gave it.
C34_Witness ==
    /\ app.fn = "ViaWireGuard" /\ app.res.failed = "up"
    /\ app.arg.client.Transport = "custom" /\ app.res.client.Transport = "custom"

====
